---- MODULE Spec2Model ----
(***************************************************************************)
(* Model of PrivyEvmDelegatedEmbeddedWalletProvider                        *)
(* (typescript/agentkit/src/wallet-providers/                              *)
(*  privyEvmDelegatedEmbeddedWalletProvider.ts).                           *)
(*                                                                         *)
(* JavaScript strings are TLA+ strings (concatenation is \o, so template   *)
(* literals are computed, not assumed injective).  An optional value       *)
(* (T | undefined) is a set with at most one element: None is undefined,   *)
(* Some(v) is the value v.                                                 *)
(***************************************************************************)
EXTENDS Integers, Sequences, FiniteSets, TLC

VARIABLES
    env,               \* process.env, read by the constructor
    runs,              \* the configureWithWallet invocations (factory runs)
    provider,          \* the private fields of the provider the operations run on
    walletApiClients,  \* #walletApiClients: cache key -> client handle
    constructed,       \* handles built by `new PrivyClient` in createWalletApiClient, in order
    clientCalls,       \* the direct createWalletApiClient calls made so far, with their results
    calls,             \* the public-operation invocations in flight or finished
    mapped,            \* the mapTransactionForPrivy applications made so far, with their results
    signatures         \* the generatePrivySignature applications made so far, with their results

vars == <<env, runs, provider, walletApiClients, constructed, clientCalls, calls,
          mapped, signatures>>

(***************************************************************************)
(* JavaScript values                                                       *)
(***************************************************************************)
None == {}

Some(v) == {v}

The(opt) == CHOOSE v \in opt : TRUE

\* a ?? b
Coalesce(a, b) == IF a = None THEN b ELSE a

\* !s for an optional string: undefined and "" are falsy
Falsy(s) == s = None \/ s = Some("")

\* a || b for optional strings
OrElse(a, b) == IF Falsy(a) THEN b ELSE a

\* s.startsWith(p)
StartsWith(s, p) == Len(s) >= Len(p) /\ SubSeq(s, 1, Len(p)) = p

\* s with its first Len(p) characters dropped
DropPrefix(s, p) == SubSeq(s, Len(p) + 1, Len(s))

CharAt(s, i) == SubSeq(s, i, i)

Digits == {"0", "1", "2", "3", "4", "5", "6", "7", "8", "9"}

DigitValue(ch) ==
    CASE ch = "0" -> 0 [] ch = "1" -> 1 [] ch = "2" -> 2 [] ch = "3" -> 3
      [] ch = "4" -> 4 [] ch = "5" -> 5 [] ch = "6" -> 6 [] ch = "7" -> 7
      [] ch = "8" -> 8 [] ch = "9" -> 9

\* NaN, the result of Number(s) for a string that is no number
NaN == -1

RECURSIVE ParseDigits(_, _)
ParseDigits(s, acc) ==
    IF s = "" THEN acc
    ELSE IF CharAt(s, 1) \in Digits
         THEN ParseDigits(DropPrefix(s, "0"), 10 * acc + DigitValue(CharAt(s, 1)))
         ELSE NaN

RECURSIVE Trim(_)
Trim(s) ==
    IF s # "" /\ CharAt(s, 1) = " " THEN Trim(DropPrefix(s, " "))
    ELSE IF s # "" /\ CharAt(s, Len(s)) = " " THEN Trim(SubSeq(s, 1, Len(s) - 1))
    ELSE s

\* Number(s) for the unsigned decimal strings of the model; Number("") is 0
Number(s) == ParseDigits(Trim(s), 0)

\* s.split(","): the pieces as a sequence of strings
RECURSIVE SplitComma(_, _)
SplitComma(s, cur) ==
    IF s = "" THEN <<cur>>
    ELSE IF CharAt(s, 1) = ","
         THEN <<cur>> \o SplitComma(DropPrefix(s, ","), "")
         ELSE SplitComma(DropPrefix(s, ","), cur \o CharAt(s, 1))

(***************************************************************************)
(* Network Resolver: NETWORK_ID_TO_CHAIN_ID and getChain are imported from *)
(* ../network/network, which is not among the source files; they are       *)
(* modelled from the specification (section 4.1) as a lookup table and a   *)
(* partial lookup over a few well-known chains.                            *)
(***************************************************************************)
KnownNetworkIds == {"base-mainnet", "base-sepolia", "ethereum-mainnet"}

\* NETWORK_ID_TO_CHAIN_ID[networkId]; undefined for an unknown network id
NETWORK_ID_TO_CHAIN_ID(networkId) ==
    CASE networkId = "base-mainnet" -> Some("8453")
      [] networkId = "base-sepolia" -> Some("84532")
      [] networkId = "ethereum-mainnet" -> Some("1")
      [] OTHER -> None

\* getChain(chainId) finds a chain definition; chainId is an optional string
getChain(chainId) ==
    chainId # None /\ The(chainId) \in {"1", "8453", "84532"}

(***************************************************************************)
(* Gasless policy                                                          *)
(***************************************************************************)
DEFAULT_GASLESS_CHAINS == {8453, 84532}

\* parseChainList(value) for a string value: split on ",", Number(trim),
\* keep the finite ones
parseChainList(value) ==
    IF Falsy(value) THEN DEFAULT_GASLESS_CHAINS
    ELSE LET parts == SplitComma(The(value), "")
             nums == {Number(parts[i]) : i \in DOMAIN parts}
         IN  nums \ {NaN}

(***************************************************************************)
(* constructor(config & {address, walletInstanceId}).  The result is       *)
(* [ok |-> TRUE, provider |-> fields] or [ok |-> FALSE, error |-> message].*)
(***************************************************************************)
\* config.gasless?.field
GaslessField(config, f) ==
    IF config.gasless = None THEN None ELSE The(config.gasless)[f]

Constructor(config, address, walletInstanceId, e) ==
    LET envGaslessEnabled == e.AGENTKIT_GASLESS_ENABLED = Some("true")
        envChainList == e.AGENTKIT_GASLESS_CHAINS
        resolvedGaslessChains ==
            IF GaslessField(config, "supportedChains") # None
            THEN The(GaslessField(config, "supportedChains"))
            ELSE IF ~Falsy(envChainList) THEN parseChainList(envChainList)
                 ELSE DEFAULT_GASLESS_CHAINS
        networkId == The(OrElse(config.networkId, Some("base-sepolia")))
        chainId == OrElse(config.chainId, NETWORK_ID_TO_CHAIN_ID(networkId))
        fields ==
            [ walletId |-> The(config.walletId),
              embeddedWalletId |-> walletInstanceId,
              address |-> address,
              appId |-> The(config.appId),
              appSecret |-> The(config.appSecret),
              authKey |-> The(OrElse(config.authorizationPrivateKey, Some(""))),
              authKeyId |-> config.authorizationKeyId,
              gaslessEnabled |->
                  IF GaslessField(config, "enabled") # None
                  THEN The(GaslessField(config, "enabled"))
                  ELSE envGaslessEnabled,
              gaslessChains |-> resolvedGaslessChains,
              gaslessAuthKey |->
                  Coalesce(GaslessField(config, "authorizationPrivateKey"),
                           config.authorizationPrivateKey),
              gaslessAuthKeyId |->
                  Coalesce(GaslessField(config, "authorizationKeyId"),
                           config.authorizationKeyId),
              network |-> [networkId |-> networkId, chainId |-> chainId] ]
    IN  IF ~getChain(chainId)
        THEN [ok |-> FALSE,
              error |-> "Chain with ID "
                          \o (IF chainId = None THEN "undefined" ELSE The(chainId))
                          \o " not found"]
        ELSE [ok |-> TRUE, provider |-> fields]

\* getNetwork(), getAddress()
getNetwork(p) == p.network

getAddress(p) == p.address

\* exportWallet() leaving the chain id out
exportWallet_NoChainId(p) ==
    [ walletId |-> p.walletId,
      embeddedWalletId |-> p.embeddedWalletId,
      authorizationPrivateKey |-> p.authKey,
      networkId |-> p.network.networkId,
      chainId |-> None,
      authorizationKeyId |-> p.authKeyId ]

\* exportWallet()
exportWallet(p) ==
    [ walletId |-> p.walletId,
      embeddedWalletId |-> p.embeddedWalletId,
      authorizationPrivateKey |-> p.authKey,
      networkId |-> p.network.networkId,
      chainId |-> p.network.chainId,
      authorizationKeyId |-> p.authKeyId ]

(***************************************************************************)
(* Thrown values.  kind "Error" is an instance of Error, "object" another  *)
(* object, "primitive" a thrown string; status, statusCode and message are *)
(* the optional properties the code reads.                                 *)
(***************************************************************************)
NewError(msg) ==
    [kind |-> "Error", status |-> None, statusCode |-> None, message |-> Some(msg)]

\* error instanceof Error
InstanceOfError(e) == e.kind = "Error"

\* the catch block without the cause's message
Rethrow_Bare(e, prefix, bare) == NewError(bare)

\* catch (error) { if (error instanceof Error) throw new Error(prefix + error.message);
\*                 throw new Error(bare) }
Rethrow(e, prefix, bare) ==
    IF InstanceOfError(e) THEN NewError(prefix \o The(e.message)) ELSE NewError(bare)

(***************************************************************************)
(* configureWithWallet(config): one factory run.  The first step runs the  *)
(* synchronous validation and issues privyClient.getUser; the second step  *)
(* runs from the answer of getUser to the end.                             *)
(***************************************************************************)
RunIds == {"orig", "rebuilt"}

\* lookups counts the getUser requests issued; answer is what getUser answered
IdleRun(config) ==
    [pc |-> "idle", config |-> config, lookups |-> 0, answer |-> None, result |-> None]

ConfigureFailure(e) ==
    [ok |-> FALSE,
     error |-> Rethrow(e, "Failed to configure Privy embedded wallet provider: ",
                       "Failed to configure Privy embedded wallet provider")]

\* the validation without its check of the authorization key
ValidateConfig_NoAuthKey(config) ==
    IF Falsy(config.walletId)
    THEN Some(NewError("walletId is required for PrivyEvmDelegatedEmbeddedWalletProvider"))
    ELSE IF Falsy(config.appId) \/ Falsy(config.appSecret)
    THEN Some(NewError("appId and appSecret are required for PrivyEvmDelegatedEmbeddedWalletProvider"))
    ELSE None

\* the validation of lines 186-200: the error thrown, or None
ValidateConfig(config) ==
    IF Falsy(config.walletId)
    THEN Some(NewError("walletId is required for PrivyEvmDelegatedEmbeddedWalletProvider"))
    ELSE IF Falsy(config.appId) \/ Falsy(config.appSecret)
    THEN Some(NewError("appId and appSecret are required for PrivyEvmDelegatedEmbeddedWalletProvider"))
    ELSE IF Falsy(config.authorizationPrivateKey)
    THEN Some(NewError("authorizationPrivateKey is required for PrivyEvmDelegatedEmbeddedWalletProvider"))
    ELSE None

\* configureWithWallet up to `await privyClient.getUser(config.walletId)`
ConfigureStart(run) ==
    LET invalid == ValidateConfig(run.config)
    IN  IF invalid # None
        THEN [run EXCEPT !.pc = "done", !.result = Some(ConfigureFailure(The(invalid)))]
        ELSE [run EXCEPT !.pc = "awaitUser", !.lookups = @ + 1]

\* user.linkedAccounts.filter(type === "wallet" && walletClientType === "privy")
RECURSIVE FilterEmbedded(_)
FilterEmbedded(accounts) ==
    IF accounts = <<>> THEN <<>>
    ELSE LET a == Head(accounts)
         IN  IF a.type = "wallet" /\ a.walletClientType = "privy"
             THEN <<a>> \o FilterEmbedded(Tail(accounts))
             ELSE FilterEmbedded(Tail(accounts))

\* configureWithWallet from the answer of getUser on
ConfigureFinish(run, resp, e) ==
    LET config == run.config
        embeddedWallets == FilterEmbedded(resp.linkedAccounts)
        walletRecord == embeddedWallets[1]
        built == Constructor(config, walletRecord.address, walletRecord.id, e)
        outcome ==
            IF ~resp.ok THEN ConfigureFailure(resp.error)
            ELSE IF Len(embeddedWallets) = 0
            THEN ConfigureFailure(NewError("Could not find wallet address for wallet ID "
                                             \o The(config.walletId)))
            ELSE IF ~Falsy(config.chainId) /\ ~getChain(config.chainId)
            THEN ConfigureFailure(NewError("Chain with ID " \o The(config.chainId)
                                             \o " not found"))
            ELSE IF ~built.ok THEN ConfigureFailure(NewError(built.error))
            ELSE built
    IN  [run EXCEPT !.pc = "done", !.answer = Some(resp), !.result = Some(outcome)]

(***************************************************************************)
(* Canonical Request Signer                                                *)
(***************************************************************************)
\* normalizePrivyAuthorizationKey(key): key is an optional string
normalizePrivyAuthorizationKey(key) ==
    IF Falsy(key) THEN None
    ELSE IF StartsWith(The(key), "wallet-auth:")
         THEN Some(DropPrefix(The(key), "wallet-auth:"))
         ELSE key

\* The key material crypto.createPrivateKey accepts (a property of the key
\* string that the crypto library decides).
WellFormedKeys == {"MIGkey1", "MIGkey2", "MIIEkey3"}

\* generatePrivySignature(url, body): the error it throws, or None
SignatureFault(p) ==
    LET normalizedKey == normalizePrivyAuthorizationKey(Some(p.authKey))
        fault ==
            IF normalizedKey = None THEN Some(NewError("Missing Privy authorization key"))
            ELSE IF The(normalizedKey) \notin WellFormedKeys
                 THEN Some(NewError("error:1E08010C:DECODER routines::unsupported"))
                 ELSE None
    IN  IF fault = None THEN None
        ELSE Some(Rethrow(The(fault), "Error generating Privy authorization signature: ",
                          "Error generating Privy authorization signature"))

(***************************************************************************)
(* Wallet API Client Cache                                                 *)
(***************************************************************************)
EmptyMap == [k \in {} |-> {}]

MapHas(m, k) == k \in DOMAIN m

MapSet(m, k, v) == [x \in (DOMAIN m) \cup {k} |-> IF x = k THEN v ELSE m[x]]

\* the cache key of line 559
CacheKey(resolvedKey, resolvedKeyId) ==
    resolvedKey \o ":" \o The(Coalesce(resolvedKeyId, Some("default")))

\* createWalletApiClient(authKey?, authKeyId?) constructing a client on every
\* call and storing it over the entry of its key
createWalletApiClient_NoCache(p, cache, built, authKey, authKeyId) ==
    LET resolvedKey == The(Coalesce(Coalesce(authKey, p.gaslessAuthKey), Some(p.authKey)))
        resolvedKeyId == Coalesce(Coalesce(authKeyId, p.gaslessAuthKeyId), p.authKeyId)
        cacheKey == CacheKey(resolvedKey, resolvedKeyId)
        client == [id |-> Len(built) + 1,
                   authorizationPrivateKey |-> resolvedKey,
                   keyIdHeader |-> IF Falsy(resolvedKeyId) THEN None ELSE resolvedKeyId]
    IN  IF resolvedKey = ""
        THEN [ok |-> FALSE,
              error |-> NewError("Gasless sponsorship requires a Privy authorization private key"),
              resolvedKey |-> resolvedKey, resolvedKeyId |-> resolvedKeyId,
              cache |-> cache, built |-> built]
        ELSE [ok |-> TRUE, client |-> client,
              resolvedKey |-> resolvedKey, resolvedKeyId |-> resolvedKeyId,
              cache |-> MapSet(cache, cacheKey, client), built |-> Append(built, client)]

\* createWalletApiClient(authKey?, authKeyId?) on the cache `cache` with the
\* handles `built` constructed so far.  A handle records what `new PrivyClient`
\* was given and the key id header injected into it; resolvedKey and
\* resolvedKeyId are the credential pair the call resolved its arguments to.
createWalletApiClient(p, cache, built, authKey, authKeyId) ==
    LET resolvedKey == The(Coalesce(Coalesce(authKey, p.gaslessAuthKey), Some(p.authKey)))
        resolvedKeyId == Coalesce(Coalesce(authKeyId, p.gaslessAuthKeyId), p.authKeyId)
        cacheKey == CacheKey(resolvedKey, resolvedKeyId)
        client == [id |-> Len(built) + 1,
                   authorizationPrivateKey |-> resolvedKey,
                   keyIdHeader |-> IF Falsy(resolvedKeyId) THEN None ELSE resolvedKeyId]
    IN  IF resolvedKey = ""
        THEN [ok |-> FALSE,
              error |-> NewError("Gasless sponsorship requires a Privy authorization private key"),
              resolvedKey |-> resolvedKey, resolvedKeyId |-> resolvedKeyId,
              cache |-> cache, built |-> built]
        ELSE IF MapHas(cache, cacheKey)
        THEN [ok |-> TRUE, client |-> cache[cacheKey],
              resolvedKey |-> resolvedKey, resolvedKeyId |-> resolvedKeyId,
              cache |-> cache, built |-> built]
        ELSE [ok |-> TRUE, client |-> client,
              resolvedKey |-> resolvedKey, resolvedKeyId |-> resolvedKeyId,
              cache |-> MapSet(cache, cacheKey, client), built |-> Append(built, client)]

(***************************************************************************)
(* Sponsorship Orchestrator                                                *)
(***************************************************************************)
\* shouldUseGasless() with the negation of the enabled flag dropped
shouldUseGasless_Inverted(p) ==
    IF p.gaslessEnabled \/ Falsy(p.network.chainId) THEN FALSE
    ELSE Number(The(p.network.chainId)) \in p.gaslessChains

\* shouldUseGasless() without the lookup of the chain id in the eligible set
shouldUseGasless_AnyChain(p) ==
    IF ~p.gaslessEnabled \/ Falsy(p.network.chainId) THEN FALSE
    ELSE TRUE

\* shouldUseGasless()
shouldUseGasless(p) ==
    IF ~p.gaslessEnabled \/ Falsy(p.network.chainId) THEN FALSE
    ELSE Number(The(p.network.chainId)) \in p.gaslessChains

\* getWalletSelector()
getWalletSelector(p) ==
    IF ~Falsy(p.embeddedWalletId)
    THEN [walletId |-> The(p.embeddedWalletId)]
    ELSE IF p.walletId # "" /\ ~StartsWith(p.walletId, "did:")
    THEN [walletId |-> p.walletId]
    ELSE [address |-> p.address, chainType |-> "ethereum"]

\* buildAuthorizationContext(authKey)
buildAuthorizationContext(p, authKey) ==
    LET normalizedKey == normalizePrivyAuthorizationKey(Coalesce(authKey, p.gaslessAuthKey))
    IN  IF normalizedKey = None THEN None
        ELSE Some([authorization_private_keys |-> <<The(normalizedKey)>>])

\* s.includes(sub)
Includes(s, sub) ==
    \E i \in 1..(Len(s) - Len(sub) + 1) : SubSeq(s, i, i + Len(sub) - 1) = sub

\* isRecoverableSponsorshipError(error) with the 401 case left out
isRecoverableSponsorshipError_No401(e) ==
    IF e.kind = "primitive" THEN FALSE
    ELSE LET status == Coalesce(e.status, e.statusCode)
         IN  IF status = Some(403) THEN TRUE
             ELSE IF e.message # None
                  THEN Includes(The(e.message), "No valid authorization signatures")
                  ELSE FALSE

\* isRecoverableSponsorshipError(error) taking every error for recoverable
isRecoverableSponsorshipError_Always(e) == TRUE

\* isRecoverableSponsorshipError(error) deciding by the status alone
isRecoverableSponsorshipError_StatusOnly(e) ==
    IF e.kind = "primitive" THEN FALSE
    ELSE LET status == Coalesce(e.status, e.statusCode)
         IN  status = Some(401) \/ status = Some(403)

\* isRecoverableSponsorshipError(error)
isRecoverableSponsorshipError(e) ==
    IF e.kind = "primitive" THEN FALSE
    ELSE LET status == Coalesce(e.status, e.statusCode)
         IN  IF status = Some(401) \/ status = Some(403) THEN TRUE
             ELSE IF e.message # None
                  THEN Includes(The(e.message), "No valid authorization signatures")
                  ELSE FALSE

(***************************************************************************)
(* Public operations.  A call is one invocation of a public operation; it  *)
(* suspends only at its awaits, so each action below runs one call from    *)
(* one await (or its start) to the next (or its end).                      *)
(*   requests: the remote requests the call issued, in order, each with    *)
(*             the answer it got (None while in flight)                    *)
(*   warnings: the messages the call passed to console.warn                *)
(*   result:   None while running, else what the caller's await observes   *)
(***************************************************************************)
IdleCall ==
    [op |-> "none", pc |-> "idle", arg |-> "", requests |-> <<>>,
     warnings |-> <<>>, result |-> None]

Returned(value) == [ok |-> TRUE, value |-> value]

Thrown(e) == [ok |-> FALSE, error |-> e]

Issue(call, pc, request) ==
    [call EXCEPT !.pc = pc, !.requests = Append(@, request)]

\* the answer of the request in flight is recorded with the request
Answer(call, resp) ==
    [call EXCEPT !.requests[Len(call.requests)].answer = Some(resp)]

\* the transaction hashes the remote services answer with, one per submission
HashOf(submission) == "0xhash-" \o submission

\* waitForTransactionReceipt(txHash): the request to the chain client
ReceiptRequest(txHash) ==
    [api |-> "chain", method |-> "waitForTransactionReceipt", sponsor |-> None,
     key |-> None, detail |-> [hash |-> txHash], answer |-> None]

\* The end of sendTransaction, of a signing operation or of a read: the call is
\* done, except that nativeTransfer goes on from its inner sendTransaction
\* (lines 654-671): a hash is awaited on, an error is wrapped and rethrown.
Finish(call, outcome) ==
    IF call.op = "nativeTransfer"
    THEN IF outcome.ok
         THEN Issue(call, "awaitChain", ReceiptRequest(outcome.value))
         ELSE [call EXCEPT !.pc = "done",
                           !.result = Some(Thrown(Rethrow(outcome.error,
                                                          "Native transfer failed: ",
                                                          "Native transfer failed")))]
    ELSE [call EXCEPT !.pc = "done", !.result = Some(outcome)]

(***************************************************************************)
(* The custodial wallet RPC: sign, signMessage, signTypedData,             *)
(* signTransaction and sendViaPrivyRpc through executePrivyRequest.        *)
(***************************************************************************)
RpcOps == {"sign", "signMessage", "signTypedData", "signTransaction"}

\* the custodial operation a call is in: sendTransaction and nativeTransfer
\* reach the RPC through sendViaPrivyRpc
RpcKind(call) == IF call.op \in RpcOps THEN call.op ELSE "sendViaPrivyRpc"

RpcMethod(kind) ==
    CASE kind = "sign" -> "personal_sign"
      [] kind = "signMessage" -> "personal_sign"
      [] kind = "signTypedData" -> "eth_signTypedData_v4"
      [] kind = "signTransaction" -> "eth_signTransaction"
      [] kind = "sendViaPrivyRpc" -> "eth_sendTransaction"

\* the top-level keys of the body handed to executePrivyRequest
RpcBodyKeys(kind) ==
    CASE kind = "signTypedData" -> {"method", "params"}
      [] kind = "sendViaPrivyRpc" -> {"address", "chain_type", "method", "caip2", "params"}
      [] OTHER -> {"address", "chain_type", "method", "params"}

RpcPrefix(kind) ==
    CASE kind = "sign" -> "Hash signing failed: "
      [] kind = "signMessage" -> "Message signing failed: "
      [] kind = "signTypedData" -> "Typed data signing failed: "
      [] kind = "signTransaction" -> "Transaction signing failed: "
      [] kind = "sendViaPrivyRpc" -> "Transaction sending failed: "

RpcBare(kind) ==
    CASE kind = "sign" -> "Hash signing failed"
      [] kind = "signMessage" -> "Message signing failed"
      [] kind = "signTypedData" -> "Typed data signing failed with unknown error"
      [] kind = "signTransaction" -> "Transaction signing failed"
      [] kind = "sendViaPrivyRpc" -> "Transaction sending failed"

\* what each operation returns from the parsed response
RpcResult(kind, json) ==
    CASE kind = "signTypedData" -> json.signature
      [] kind = "signTransaction" ->
            IF json.data = None THEN None ELSE The(json.data).signed_transaction
      [] kind = "sendViaPrivyRpc" ->
            IF json.data = None THEN None ELSE The(json.data).hash
      [] OTHER -> IF json.data = None THEN None ELSE The(json.data).signature

\* the request of a direct custodial call signed with the sponsorship key
RpcRequest_SponsorKey(p, kind) ==
    [api |-> "rpc", method |-> RpcMethod(kind), sponsor |-> None,
     key |-> normalizePrivyAuthorizationKey(Coalesce(p.gaslessAuthKey, Some(p.authKey))),
     detail |-> [keys |-> RpcBodyKeys(kind)], answer |-> None]

RpcRequest(p, kind) ==
    [api |-> "rpc", method |-> RpcMethod(kind), sponsor |-> None,
     key |-> normalizePrivyAuthorizationKey(Some(p.authKey)),
     detail |-> [keys |-> RpcBodyKeys(kind)], answer |-> None]

\* An operation up to the fetch of executePrivyRequest.  getPrivyHeaders runs
\* before the try block of executePrivyRequest, so a signature fault reaches
\* the operation's own catch directly.
RpcStart(p, call, kind) ==
    LET fault == SignatureFault(p)
    IN  IF fault # None
        THEN Finish(call, Thrown(Rethrow(The(fault), RpcPrefix(kind), RpcBare(kind))))
        ELSE Issue(call, "awaitRpc", RpcRequest(p, kind))

\* executePrivyRequest from the answer of fetch on: what it returns or throws
executePrivyRequest(resp) ==
    CASE resp.type = "reject" ->
            Thrown(Rethrow(resp.error, "Privy request failed: ",
                           "Privy request failed with unknown error"))
      [] resp.type = "http" ->
            Thrown(Rethrow(NewError("HTTP error! status: " \o ToString(resp.status)),
                           "Privy request failed: ",
                           "Privy request failed with unknown error"))
      [] resp.type = "json" -> Returned(resp.json)

\* An operation from the answer of fetch on
RpcFinish(call, resp) ==
    LET kind == RpcKind(call)
        got == executePrivyRequest(resp)
        outcome ==
            IF got.ok THEN Returned(RpcResult(kind, got.value))
            ELSE Thrown(Rethrow(got.error, RpcPrefix(kind), RpcBare(kind)))
    IN  Finish(Answer(call, resp), outcome)

\* sendViaPrivyRpc(transaction) up to its await
sendViaPrivyRpc(p, call) == RpcStart(p, call, "sendViaPrivyRpc")

(***************************************************************************)
(* sendTransaction and sendWithGasSponsorship                              *)
(***************************************************************************)
\* the request of execute(sponsor) to client.walletApi.ethereum.sendTransaction
SponsorshipRequest(p, client, sponsor) ==
    [api |-> "walletApi", method |-> "ethereum.sendTransaction",
     sponsor |-> Some(sponsor),
     key |-> Some(client.authorizationPrivateKey),
     detail |-> [client |-> client,
                 selector |-> getWalletSelector(p),
                 authorization_context |-> buildAuthorizationContext(p, p.gaslessAuthKey)],
     answer |-> None]

\* sendTransaction without its catch block: the error reaches the caller
GaslessFailed_Rethrow(p, call, e) == Finish(call, Thrown(e))

\* the catch block of sendTransaction (lines 429-435) and the direct send
\* after it (line 438)
GaslessFailed(p, call, e) ==
    LET message == IF InstanceOfError(e) THEN The(e.message) ELSE "unknown error"
    IN  sendViaPrivyRpc(p, [call EXCEPT !.warnings = Append(@, message)])

\* sendTransaction(transaction) up to its first await, with the cache and the
\* handles constructed so far: [call, cache, built]
sendTransaction(p, call, cache, built) ==
    IF shouldUseGasless(p)
    THEN LET made == createWalletApiClient(p, cache, built,
                                           p.gaslessAuthKey, p.gaslessAuthKeyId)
         IN  IF made.ok
             THEN [call |-> Issue(call, "awaitSponsored",
                                  SponsorshipRequest(p, made.client, TRUE)),
                   cache |-> made.cache, built |-> made.built]
             ELSE [call |-> GaslessFailed(p, call, made.error),
                   cache |-> made.cache, built |-> made.built]
    ELSE [call |-> sendViaPrivyRpc(p, call), cache |-> cache, built |-> built]

\* sendWithGasSponsorship submitting with sponsor=false also after a success
SponsoredAnswered_RetryAfterSuccess(p, call, resp) ==
    LET answered == Answer(call, resp)
        client == call.requests[Len(call.requests)].detail.client
    IN  IF resp.ok \/ isRecoverableSponsorshipError(resp.error)
        THEN Issue(answered, "awaitRetry", SponsorshipRequest(p, client, FALSE))
        ELSE GaslessFailed(p, answered, resp.error)

\* sendWithGasSponsorship from the answer of execute(true) on (lines 509-516)
SponsoredAnswered(p, call, resp) ==
    LET answered == Answer(call, resp)
        client == call.requests[Len(call.requests)].detail.client
    IN  IF resp.ok THEN Finish(answered, Returned(Some(resp.hash)))
        ELSE IF isRecoverableSponsorshipError(resp.error)
        THEN Issue(answered, "awaitRetry", SponsorshipRequest(p, client, FALSE))
        ELSE GaslessFailed(p, answered, resp.error)

\* sendWithGasSponsorship retrying the unsponsored submission while its error
\* is recoverable
RetryAnswered_Again(p, call, resp) ==
    LET answered == Answer(call, resp)
        client == call.requests[Len(call.requests)].detail.client
    IN  IF resp.ok THEN Finish(answered, Returned(Some(resp.hash)))
        ELSE IF isRecoverableSponsorshipError(resp.error)
        THEN Issue(answered, "awaitRetry", SponsorshipRequest(p, client, FALSE))
        ELSE GaslessFailed(p, answered, resp.error)

\* sendWithGasSponsorship from the answer of execute(false) on
RetryAnswered(p, call, resp) ==
    LET answered == Answer(call, resp)
    IN  IF resp.ok THEN Finish(answered, Returned(Some(resp.hash)))
        ELSE GaslessFailed(p, answered, resp.error)

(***************************************************************************)
(* Reads through the chain client, and nativeTransfer                      *)
(***************************************************************************)
ChainOps == {"getBalance", "waitForTransactionReceipt", "readContract"}

ChainRequest(op) ==
    [api |-> "chain", method |-> op, sponsor |-> None, key |-> None,
     detail |-> [hash |-> None], answer |-> None]

\* getBalance, waitForTransactionReceipt, readContract and the tail of
\* nativeTransfer from the answer of the chain client on
ChainFinish(call, resp) ==
    LET outcome ==
            CASE call.op = "getBalance" ->
                    IF resp.ok THEN Returned(resp.value)
                    ELSE Thrown(Rethrow(resp.error, "Error getting balance: ",
                                        "Error getting balance"))
              [] call.op = "nativeTransfer" ->
                    IF ~resp.ok
                    THEN Thrown(Rethrow(resp.error, "Native transfer failed: ",
                                        "Native transfer failed"))
                    ELSE IF resp.value = None
                    THEN Thrown(Rethrow(NewError("Transaction failed"),
                                        "Native transfer failed: ",
                                        "Native transfer failed"))
                    ELSE Returned(resp.value)
              [] OTHER ->
                    IF resp.ok THEN Returned(resp.value) ELSE Thrown(resp.error)
    IN  [Answer(call, resp) EXCEPT !.pc = "done", !.result = Some(outcome)]

\* BigInt(value) of nativeTransfer throws on a string that is no integer
BigIntThrows(value) == Number(value) = NaN

(***************************************************************************)
(* What the remote services may answer                                     *)
(***************************************************************************)
ApiError(kind, status, statusCode, message) ==
    [kind |-> kind, status |-> status, statusCode |-> statusCode, message |-> message]

\* errors of the wallet API client: 401 and 403 (as status or statusCode), a
\* rejected authorization signature, a server error, and a thrown string
SponsorshipErrors ==
    { ApiError("Error", Some(401), None, Some("Unauthorized")),
      ApiError("object", None, Some(403), None),
      ApiError("Error", Some(400), None,
               Some("Bad request: No valid authorization signatures were provided")),
      ApiError("Error", Some(500), None, Some("Internal Server Error")),
      ApiError("primitive", None, None, None) }

\* the error the unsponsored retry is answered with: the code does not
\* classify it, so one error stands for all, the one recoverable on a first
\* attempt
RetryErrors ==
    { ApiError("Error", Some(401), None, Some("Unauthorized")) }

SponsoredAnswers ==
    {[ok |-> TRUE, hash |-> HashOf("sponsored")]}
        \cup {[ok |-> FALSE, error |-> e] : e \in SponsorshipErrors}

RetryAnswers ==
    {[ok |-> TRUE, hash |-> HashOf("unsponsored")]}
        \cup {[ok |-> FALSE, error |-> e] : e \in RetryErrors}

NoData == [signature |-> None, signed_transaction |-> None, hash |-> None]

\* the parsed body of a 2xx answer of the custodial RPC: {data: {...}} with
\* the result field of the method, or an empty object; for signTypedData also
\* the body {signature} that the operation reads
RpcJson(kind) ==
    { [data |-> Some([NoData EXCEPT
                          !.signature = IF RpcMethod(kind) \in {"personal_sign",
                                                                 "eth_signTypedData_v4"}
                                        THEN Some("0xsignature") ELSE None,
                          !.signed_transaction = IF RpcMethod(kind) = "eth_signTransaction"
                                                 THEN Some("0xsigned") ELSE None,
                          !.hash = IF RpcMethod(kind) = "eth_sendTransaction"
                                   THEN Some(HashOf("direct")) ELSE None]),
       signature |-> None],
      [data |-> None, signature |-> None] }
        \cup (IF kind = "signTypedData"
              THEN {[data |-> None, signature |-> Some("0xsignature")]}
              ELSE {})

RpcAnswers(kind) ==
    {[type |-> "json", json |-> j] : j \in RpcJson(kind)}
        \cup {[type |-> "http", status |-> 500],
              [type |-> "reject", error |-> NewError("fetch failed")]}

ChainAnswers ==
    { [ok |-> TRUE, value |-> Some("0xresult")],
      [ok |-> TRUE, value |-> None],
      [ok |-> FALSE, error |-> NewError("The request timed out")],
      [ok |-> FALSE, error |-> ApiError("primitive", None, None, None)] }

(***************************************************************************)
(* Configurations, environments and identity-service answers               *)
(***************************************************************************)
NumCalls == 2

Calls == 1..NumCalls

NoEnv == [AGENTKIT_GASLESS_ENABLED |-> None, AGENTKIT_GASLESS_CHAINS |-> None]

Envs ==
    { NoEnv,
      [AGENTKIT_GASLESS_ENABLED |-> Some("true"),
       AGENTKIT_GASLESS_CHAINS |-> Some("1, 8453,x")] }

GaslessConfig(enabled, supportedChains, authorizationPrivateKey, authorizationKeyId) ==
    [enabled |-> enabled, supportedChains |-> supportedChains,
     authorizationPrivateKey |-> authorizationPrivateKey,
     authorizationKeyId |-> authorizationKeyId]

BaseConfig ==
    [ walletId |-> Some("did:privy:user1"),
      appId |-> Some("app-id"),
      appSecret |-> Some("app-secret"),
      authorizationPrivateKey |-> Some("wallet-auth:MIGkey1"),
      authorizationKeyId |-> None,
      networkId |-> Some("base-mainnet"),
      chainId |-> None,
      gasless |-> None ]

\* the gasless blocks of the configurations the operations are run under
GaslessConfigs ==
    { None,
      Some(GaslessConfig(Some(TRUE), None, None, None)),
      Some(GaslessConfig(Some(FALSE), None, None, None)),
      Some(GaslessConfig(Some(TRUE), Some({1}), None, None)),
      Some(GaslessConfig(Some(TRUE), None, Some(""), None)),
      Some(GaslessConfig(Some(TRUE), None, Some("MIGkey2"), Some("key-id-2"))) }

\* configurations that pass validation, for the providers the operations run on
OpConfigs ==
    { [BaseConfig EXCEPT !.gasless = g, !.networkId = n, !.authorizationPrivateKey = k]
        : g \in GaslessConfigs,
          n \in {Some("base-mainnet"), Some("ethereum-mainnet")},
          k \in {Some("wallet-auth:MIGkey1"), Some("not-a-pem-key")} }

\* configurations handed to configureWithWallet, valid and invalid
CtorConfigs ==
    { [ walletId |-> w, appId |-> a, appSecret |-> s, authorizationPrivateKey |-> k,
        authorizationKeyId |-> i, networkId |-> n, chainId |-> c, gasless |-> g ]
        : w \in {None, Some(""), Some("did:privy:user1")},
          a \in {None, Some("app-id")},
          s \in {None, Some("app-secret")},
          k \in {None, Some("wallet-auth:MIGkey1")},
          i \in {None, Some("key-id-1")},
          n \in {None, Some("base-mainnet"), Some("solana-devnet")},
          c \in {None, Some("1"), Some("999")},
          g \in {None, Some(GaslessConfig(Some(TRUE), None, None, None))} }

Account(type, walletClientType, address, id) ==
    [type |-> type, walletClientType |-> walletClientType, address |-> address, id |-> id]

\* what privyClient.getUser answers: a user with linked accounts, or an error
UserAnswers ==
    { [ok |-> TRUE, linkedAccounts |-> <<Account("email", "", "", None)>>],
      [ok |-> TRUE, linkedAccounts |->
          <<Account("wallet", "metamask", "0xM", None),
            Account("wallet", "privy", "0xA", Some("instance-1"))>>],
      [ok |-> TRUE, linkedAccounts |->
          <<Account("wallet", "privy", "0xB", None),
            Account("wallet", "privy", "0xA", Some("instance-1"))>>],
      [ok |-> FALSE, error |-> NewError("User not found")],
      [ok |-> FALSE, error |-> ApiError("primitive", None, None, None)] }

\* the providers configureWithWallet returns for the configurations OpConfigs
\* under environment e
ProvidersUnder(e) ==
    { Constructor(cfg, "0xA", Some("instance-1"), e).provider :
        cfg \in {c \in OpConfigs : Constructor(c, "0xA", Some("instance-1"), e).ok} }

NoRuns == [r \in RunIds |-> IdleRun(BaseConfig)]

NoCalls == [c \in Calls |-> IdleCall]

(***************************************************************************)
(* Actions: the factory                                                    *)
(***************************************************************************)
\* the caller's configuration for a provider rebuilt from exportWallet(): the
\* exported fields, with the application id and secret, which are not exported
FromExport(x, appId, appSecret) ==
    [ walletId |-> Some(x.walletId),
      appId |-> Some(appId),
      appSecret |-> Some(appSecret),
      authorizationPrivateKey |-> Some(x.authorizationPrivateKey),
      authorizationKeyId |-> x.authorizationKeyId,
      networkId |-> Some(x.networkId),
      chainId |-> x.chainId,
      gasless |-> None ]

\* configureWithWallet(config) is called
ConfigureWithWallet ==
    /\ runs["orig"].pc = "idle"
    /\ runs' = [runs EXCEPT !["orig"] = ConfigureStart(@)]
    /\ UNCHANGED <<mapped, signatures, env, provider, walletApiClients, constructed, clientCalls, calls>>

\* configureWithWallet is called again, with the fields of exportWallet()
Reconstruct ==
    /\ provider # None
    /\ runs["rebuilt"].pc = "idle"
    /\ LET p == The(provider)
       IN  runs' = [runs EXCEPT !["rebuilt"] =
                       ConfigureStart(IdleRun(FromExport(exportWallet(p),
                                                         p.appId, p.appSecret)))]
    /\ UNCHANGED <<mapped, signatures, env, provider, walletApiClients, constructed, clientCalls, calls>>

\* getUser answers; the run ends, and the first run's provider reaches its caller
UserAnswered(r, resp) ==
    /\ runs[r].pc = "awaitUser"
    /\ LET run == ConfigureFinish(runs[r], resp, env)
       IN  /\ runs' = [runs EXCEPT ![r] = run]
           /\ provider' = IF r = "orig" /\ The(run.result).ok
                          THEN Some(The(run.result).provider)
                          ELSE provider
    /\ UNCHANGED <<mapped, signatures, env, walletApiClients, constructed, clientCalls, calls>>

(***************************************************************************)
(* Actions: the public operations                                          *)
(***************************************************************************)
Begin(c, op, arg) == [IdleCall EXCEPT !.op = op, !.pc = "running", !.arg = arg]

\* sendTransaction(transaction) is called
SendTransactionCall(c) ==
    /\ provider # None
    /\ calls[c].pc = "idle"
    /\ LET went == sendTransaction(The(provider), Begin(c, "sendTransaction", ""),
                                   walletApiClients, constructed)
       IN  /\ calls' = [calls EXCEPT ![c] = went.call]
           /\ walletApiClients' = went.cache
           /\ constructed' = went.built
    /\ UNCHANGED <<mapped, signatures, env, runs, provider, clientCalls>>

\* nativeTransfer(to, value) is called
NativeTransferCall(c, value) ==
    /\ provider # None
    /\ calls[c].pc = "idle"
    /\ LET call == Begin(c, "nativeTransfer", value)
           went == sendTransaction(The(provider), call, walletApiClients, constructed)
       IN  IF BigIntThrows(value)
           THEN /\ calls' = [calls EXCEPT ![c] =
                                [call EXCEPT !.pc = "done",
                                             !.result = Some(Thrown(NewError(
                                                 "Cannot convert " \o value \o " to a BigInt")))]]
                /\ UNCHANGED <<walletApiClients, constructed>>
           ELSE /\ calls' = [calls EXCEPT ![c] = went.call]
                /\ walletApiClients' = went.cache
                /\ constructed' = went.built
    /\ UNCHANGED <<mapped, signatures, env, runs, provider, clientCalls>>

\* sign(hash), signMessage(message), signTypedData(typedData) or
\* signTransaction(transaction) is called
SigningCall(c, op) ==
    /\ provider # None
    /\ calls[c].pc = "idle"
    /\ calls' = [calls EXCEPT ![c] = RpcStart(The(provider), Begin(c, op, ""), op)]
    /\ UNCHANGED <<mapped, signatures, env, runs, provider, walletApiClients, constructed, clientCalls>>

\* getBalance(), waitForTransactionReceipt(txHash) or readContract(params) is called
ReadCall(c, op) ==
    /\ provider # None
    /\ calls[c].pc = "idle"
    /\ calls' = [calls EXCEPT ![c] = Issue(Begin(c, op, ""), "awaitChain", ChainRequest(op))]
    /\ UNCHANGED <<mapped, signatures, env, runs, provider, walletApiClients, constructed, clientCalls>>

\* the wallet API answers execute(true)
SponsoredResponse(c, resp) ==
    /\ calls[c].pc = "awaitSponsored"
    /\ calls' = [calls EXCEPT ![c] = SponsoredAnswered(The(provider), @, resp)]
    /\ UNCHANGED <<mapped, signatures, env, runs, provider, walletApiClients, constructed, clientCalls>>

\* the wallet API answers execute(false)
RetryResponse(c, resp) ==
    /\ calls[c].pc = "awaitRetry"
    /\ calls' = [calls EXCEPT ![c] = RetryAnswered(The(provider), @, resp)]
    /\ UNCHANGED <<mapped, signatures, env, runs, provider, walletApiClients, constructed, clientCalls>>

\* the custodial RPC answers the fetch of executePrivyRequest
RpcResponse(c, resp) ==
    /\ calls[c].pc = "awaitRpc"
    /\ resp \in RpcAnswers(RpcKind(calls[c]))
    /\ calls' = [calls EXCEPT ![c] = RpcFinish(@, resp)]
    /\ UNCHANGED <<mapped, signatures, env, runs, provider, walletApiClients, constructed, clientCalls>>

\* the chain client answers
ChainResponse(c, resp) ==
    /\ calls[c].pc = "awaitChain"
    /\ calls' = [calls EXCEPT ![c] = ChainFinish(@, resp)]
    /\ UNCHANGED <<mapped, signatures, env, runs, provider, walletApiClients, constructed, clientCalls>>

\* the caller has taken the result of a finished call
Return(c) ==
    /\ calls[c].pc = "done"
    /\ calls' = [calls EXCEPT ![c] = IdleCall]
    /\ UNCHANGED <<mapped, signatures, env, runs, provider, walletApiClients, constructed, clientCalls>>

\* no other call has been started
Alone(c) == \A d \in Calls \ {c} : calls[d].pc = "idle"

(***************************************************************************)
(* Actions: createWalletApiClient called on its own                        *)
(***************************************************************************)
MaxClientCalls == 3

ClientKeys == {None, Some("MIGkey1"), Some("MIGkey2")}

ClientKeyIds == {None, Some("default"), Some("key-id-1")}

\* createWalletApiClient(authKey, authKeyId) is called
CreateWalletApiClient(authKey, authKeyId) ==
    /\ provider # None
    /\ Len(clientCalls) < MaxClientCalls
    /\ LET made == createWalletApiClient(The(provider), walletApiClients, constructed,
                                         authKey, authKeyId)
       IN  /\ walletApiClients' = made.cache
           /\ constructed' = made.built
           /\ clientCalls' = Append(clientCalls,
                                    [authKey |-> authKey, authKeyId |-> authKeyId,
                                     resolvedKey |-> made.resolvedKey,
                                     resolvedKeyId |-> made.resolvedKeyId,
                                     result |-> IF made.ok THEN Returned(made.client)
                                                ELSE Thrown(made.error)])
    /\ UNCHANGED <<mapped, signatures, env, runs, provider, calls>>

(***************************************************************************)
(* Specifications                                                          *)
(***************************************************************************)
\* Spec: concurrent sendTransaction calls on a constructed provider
Init ==
    /\ env \in Envs
    /\ runs = NoRuns
    /\ provider \in {Some(p) : p \in ProvidersUnder(env)}
    /\ walletApiClients = EmptyMap
    /\ constructed = <<>>
    /\ clientCalls = <<>>
    /\ calls = NoCalls
    /\ mapped = <<>>
    /\ signatures = <<>>

Next ==
    \/ \E c \in Calls : SendTransactionCall(c)
    \/ \E c \in Calls, resp \in SponsoredAnswers : SponsoredResponse(c, resp)
    \/ \E c \in Calls, resp \in RetryAnswers : RetryResponse(c, resp)
    \/ \E c \in Calls : \E resp \in RpcAnswers(RpcKind(calls[c])) : RpcResponse(c, resp)
    \/ \E c \in Calls : Return(c)

Spec == Init /\ [][Next]_vars

\* SpecOps: every public operation, one call at a time
NextOps ==
    \/ \E c \in Calls : Alone(c) /\ SendTransactionCall(c)
    \/ \E c \in Calls, value \in {"1000", "1.5"} : Alone(c) /\ NativeTransferCall(c, value)
    \/ \E c \in Calls, op \in RpcOps : Alone(c) /\ SigningCall(c, op)
    \/ \E c \in Calls, op \in ChainOps : Alone(c) /\ ReadCall(c, op)
    \/ \E c \in Calls, resp \in SponsoredAnswers : SponsoredResponse(c, resp)
    \/ \E c \in Calls, resp \in RetryAnswers : RetryResponse(c, resp)
    \/ \E c \in Calls : \E resp \in RpcAnswers(RpcKind(calls[c])) : RpcResponse(c, resp)
    \/ \E c \in Calls, resp \in ChainAnswers : ChainResponse(c, resp)
    \/ \E c \in Calls : Return(c)

SpecOps == Init /\ [][NextOps]_vars

\* SpecCtor: configureWithWallet, exportWallet and the reconstruction
InitCtor ==
    /\ env \in Envs
    /\ runs \in {[NoRuns EXCEPT !["orig"] = IdleRun(cfg)] : cfg \in CtorConfigs}
    /\ provider = None
    /\ walletApiClients = EmptyMap
    /\ constructed = <<>>
    /\ clientCalls = <<>>
    /\ calls = NoCalls
    /\ mapped = <<>>
    /\ signatures = <<>>

NextCtor ==
    \/ ConfigureWithWallet
    \/ Reconstruct
    \/ \E r \in RunIds, resp \in UserAnswers : UserAnswered(r, resp)

SpecCtor == InitCtor /\ [][NextCtor]_vars

\* SpecCache: sequences of createWalletApiClient calls on one provider
NextCache ==
    \E authKey \in ClientKeys, authKeyId \in ClientKeyIds :
        CreateWalletApiClient(authKey, authKeyId)

SpecCache == Init /\ [][NextCache]_vars

(***************************************************************************)
(* Properties                                                              *)
(***************************************************************************)
P == The(provider)

Req(c) == calls[c].requests

IsSend(c) == calls[c].op = "sendTransaction"

IsSponsorship(r) == r.api = "walletApi"

IsDirectSend(r) == r.api = "rpc" /\ r.method = "eth_sendTransaction"

\* the provider's chain id is a member of the eligible set, as integers
ChainEligible(p) ==
    ~Falsy(p.network.chainId) /\ Number(The(p.network.chainId)) \in p.gaslessChains

\* the authorization key sponsorship calls are made with
SponsorKey(p) == The(Coalesce(p.gaslessAuthKey, Some(p.authKey)))

Failed(r) ==
    /\ r.answer # None
    /\ IF r.api = "rpc" THEN The(r.answer).type # "json" ELSE ~The(r.answer).ok

Succeeded(r) == r.answer # None /\ ~Failed(r)

C2_IneligibleNeverSponsored ==
    (~P.gaslessEnabled \/ ~ChainEligible(P))
        => /\ \A c \in Calls : \A i \in DOMAIN Req(c) :
                  /\ IsDirectSend(Req(c)[i])
                  /\ Req(c)[i].sponsor = None
           /\ \A c \in Calls : Len(Req(c)) <= 1
           /\ constructed = <<>>
           /\ walletApiClients = EmptyMap

\* C2 witness: an enabled policy on a chain outside the eligible set, and a
\* finished call whose only submission was the direct send.
C2_Witness ==
    \E c \in Calls :
        /\ P.gaslessEnabled /\ ~ChainEligible(P)
        /\ IsSend(c) /\ calls[c].pc = "done"
        /\ Len(Req(c)) = 1 /\ IsDirectSend(Req(c)[1]) /\ Succeeded(Req(c)[1])

(***************************************************************************)
(* The fallbacks of sendTransaction                                        *)
(***************************************************************************)
\* the sponsored attempt of call c was made and failed
SponsoredFailure(c) ==
    Req(c) # <<>> /\ IsSponsorship(Req(c)[1]) /\ Failed(Req(c)[1])

SponsoredError(c) == The(Req(c)[1].answer).error

\* the error carries HTTP status n, in its status or statusCode property
HasStatus(e, n) == e.status = Some(n) \/ (e.status = None /\ e.statusCode = Some(n))

\* recoverable as the specification words it (section 4.4, step 5)
SpecRecoverable(e) ==
    /\ e.kind # "primitive"
    /\ \/ HasStatus(e, 401)
       \/ HasStatus(e, 403)
       \/ e.message # None
            /\ Includes(The(e.message), "No valid authorization signatures")

\* the positions of the sponsor=false submissions of call c
Unsponsored(c) ==
    {i \in DOMAIN Req(c) : IsSponsorship(Req(c)[i]) /\ Req(c)[i].sponsor = Some(FALSE)}

\* the positions of the direct custodial submissions of call c
DirectSends(c) == {i \in DOMAIN Req(c) : IsDirectSend(Req(c)[i])}

IsDone(c) == calls[c].pc = "done"

Result(c) == The(calls[c].result)

\* call c ended by raising an error whose message starts with prefix
ThrewWith(c, prefix) ==
    /\ IsDone(c)
    /\ ~Result(c).ok
    /\ StartsWith(The(Result(c).error.message), prefix)

\* what console.warn is given for a caught error
WarnedOf(e) == IF e.kind = "Error" THEN The(e.message) ELSE "unknown error"

\* C3: when the sponsored attempt fails with HTTP 401, exactly one
\* unsponsored retry (sponsor=false) is issued, right after it; if the retry
\* succeeds the call returns the retry's hash, with no further submission, no
\* warning and no error raised.
C3_Retry401ReturnsRetryHash ==
    \A c \in Calls :
        (IsSend(c) /\ SponsoredFailure(c) /\ HasStatus(SponsoredError(c), 401))
            => /\ Unsponsored(c) = {2}
               /\ Succeeded(Req(c)[2])
                    => /\ IsDone(c)
                       /\ Result(c) = Returned(Some(The(Req(c)[2].answer).hash))
                       /\ Len(Req(c)) = 2
                       /\ calls[c].warnings = <<>>

\* C3 witness: a finished call whose sponsored attempt got a 401 and whose
\* retry succeeded.
C3_Witness ==
    \E c \in Calls :
        /\ IsSend(c) /\ SponsoredFailure(c) /\ HasStatus(SponsoredError(c), 401)
        /\ Len(Req(c)) = 2 /\ Succeeded(Req(c)[2])
        /\ IsDone(c) /\ Result(c) = Returned(Some(HashOf("unsponsored")))

\* C4 as claimed: when the sponsored attempt fails with a non-recoverable
\* error, that error reaches the caller of sendTransaction and the call makes
\* no further submission.
C4_NonRecoverablePropagates ==
    \A c \in Calls :
        (IsSend(c) /\ SponsoredFailure(c) /\ ~SpecRecoverable(SponsoredError(c)))
            => /\ Len(Req(c)) = 1
               /\ IsDone(c)
               /\ Result(c) = Thrown(SponsoredError(c))

\* C4 (amended): when the sponsored attempt fails with a non-recoverable
\* error, no sponsor=false retry is made; the error leaves the orchestrator,
\* sendTransaction logs it as a warning and makes one direct custodial send,
\* and an error the call raises is the direct send's, not the sponsored one's.
C4_NonRecoverableNoRetryThenDirect ==
    \A c \in Calls :
        (IsSend(c) /\ SponsoredFailure(c) /\ ~SpecRecoverable(SponsoredError(c)))
            => /\ Unsponsored(c) = {}
               /\ calls[c].warnings = <<WarnedOf(SponsoredError(c))>>
               /\ IF SignatureFault(P) = None
                  THEN Len(Req(c)) = 2 /\ IsDirectSend(Req(c)[2])
                  ELSE Len(Req(c)) = 1 /\ IsDone(c)
               /\ (IsDone(c) /\ ~Result(c).ok)
                    => ThrewWith(c, "Transaction sending failed: ")

\* C4 witness: a sponsored attempt answered with HTTP 500, followed by a
\* direct send that returned its hash.
C4_Witness ==
    \E c \in Calls :
        /\ IsSend(c) /\ SponsoredFailure(c) /\ HasStatus(SponsoredError(c), 500)
        /\ IsDone(c) /\ Result(c) = Returned(Some(HashOf("direct")))

\* C5 as claimed: after a recoverable failure of the sponsored attempt the
\* call makes exactly one further remote submission, two in total, also when
\* that submission fails.
C5_AtMostTwoSubmissions ==
    \A c \in Calls :
        (IsSend(c) /\ SponsoredFailure(c) /\ SpecRecoverable(SponsoredError(c)))
            => Len(Req(c)) = 2

\* C5 (amended): after a recoverable failure of the sponsored attempt the
\* orchestrator makes exactly one sponsor=false retry and never more; when
\* that retry fails too, sendTransaction logs a warning and makes one direct
\* custodial send, so the call makes at most three remote submissions, at
\* most two of them to the sponsorship API.
C5_OneRetryThenOneDirect ==
    \A c \in Calls :
        (IsSend(c) /\ SponsoredFailure(c) /\ SpecRecoverable(SponsoredError(c)))
            => /\ Unsponsored(c) = {2}
               /\ Len(Req(c)) <= 3
               /\ Len(Req(c)) = 3 => (Failed(Req(c)[2]) /\ IsDirectSend(Req(c)[3]))
               /\ Failed(Req(c)[2])
                    => /\ Len(calls[c].warnings) = 1
                       /\ Len(Req(c)) = 3 \/ (SignatureFault(P) # None /\ IsDone(c))
               /\ ~Failed(Req(c)[2]) => calls[c].warnings = <<>>

\* C5 witness: a finished call with three submissions: sponsored (recoverable
\* failure), unsponsored (failure), direct (failure).
C5_Witness ==
    \E c \in Calls :
        /\ IsSend(c) /\ SponsoredFailure(c) /\ SpecRecoverable(SponsoredError(c))
        /\ Len(Req(c)) = 3 /\ Failed(Req(c)[2]) /\ Failed(Req(c)[3])
        /\ ThrewWith(c, "Transaction sending failed: ")

\* an exception left sendWithGasSponsorship in call c: no client could be
\* created, the sponsored attempt failed non-recoverably, or the retry failed
Escaped(c) ==
    /\ IsSend(c) /\ P.gaslessEnabled /\ ChainEligible(P)
    /\ \/ SponsorKey(P) = ""
       \/ SponsoredFailure(c) /\ ~SpecRecoverable(SponsoredError(c))
       \/ Len(Req(c)) >= 2 /\ IsSponsorship(Req(c)[2]) /\ Failed(Req(c)[2])

\* C6: whenever gasless routing applies and an exception escapes the
\* orchestrator, sendTransaction catches it (one warning) and performs the
\* direct custodial send exactly once; the call's outcome is the direct
\* send's: its hash, or its error.  (A direct send whose request signature
\* cannot be generated fails before its request leaves.)
C6_OuterSafetyNet ==
    \A c \in Calls :
        Escaped(c)
            => /\ Len(calls[c].warnings) = 1
               /\ IF SignatureFault(P) # None
                  THEN /\ DirectSends(c) = {}
                       /\ ThrewWith(c, "Transaction sending failed: Error generating Privy authorization signature")
                  ELSE /\ DirectSends(c) = {Len(Req(c))}
                       /\ LET direct == Req(c)[Len(Req(c))]
                          IN  /\ direct.answer # None => IsDone(c)
                              /\ Failed(direct)
                                   => ThrewWith(c, "Transaction sending failed: Privy request failed")
                              /\ Succeeded(direct)
                                   => /\ Result(c).ok
                                      /\ Result(c).value \in {None, Some(HashOf("direct"))}
                                      /\ (The(direct.answer).json.data # None
                                            => Result(c).value = Some(HashOf("direct")))

\* C6 witness: the retry of a call failed, the exception escaped, and the
\* direct send after it returned its hash, which the call returned.
C6_Witness ==
    \E c \in Calls :
        /\ Escaped(c) /\ Len(Req(c)) = 3
        /\ IsDone(c) /\ Result(c) = Returned(Some(HashOf("direct")))

(***************************************************************************)
(* Error propagation of the public operations                              *)
(***************************************************************************)
EndsWith(s, suffix) ==
    Len(s) >= Len(suffix) /\ SubSeq(s, Len(s) - Len(suffix) + 1, Len(s)) = suffix

\* the message of the failure a request was answered with, if it has one
Cause(r) ==
    LET a == The(r.answer)
    IN  IF r.api = "rpc"
        THEN IF a.type = "http" THEN Some("HTTP error! status: " \o ToString(a.status))
             ELSE a.error.message
        ELSE a.error.message

\* the first request of call c that failed
FirstFailed(c) ==
    Req(c)[CHOOSE i \in DOMAIN Req(c) :
              Failed(Req(c)[i]) /\ \A j \in 1..(i - 1) : ~Failed(Req(c)[j])]

LastRequest(c) == Req(c)[Len(Req(c))]

\* the message each operation names itself with
OpLabel(op) ==
    CASE op = "getBalance" -> "Error getting balance"
      [] op = "sign" -> "Hash signing failed"
      [] op = "signMessage" -> "Message signing failed"
      [] op = "signTypedData" -> "Typed data signing failed"
      [] op = "signTransaction" -> "Transaction signing failed"
      [] op = "sendTransaction" -> "Transaction sending failed"
      [] op = "nativeTransfer" -> "Native transfer failed"
      [] op = "waitForTransactionReceipt" -> "Waiting for the transaction receipt failed"
      [] op = "readContract" -> "Contract read failed"

\* C7 as claimed: a finished call of any public operation one of whose remote
\* steps failed raised an error named after the operation that carries the
\* cause of the first failed step.
C7_EveryFailureWrapped ==
    \A c \in Calls :
        (IsDone(c) /\ \E i \in DOMAIN Req(c) : Failed(Req(c)[i]))
            => /\ ThrewWith(c, OpLabel(calls[c].op))
               /\ Cause(FirstFailed(c)) # None
                    => EndsWith(The(Result(c).error.message), The(Cause(FirstFailed(c))))

\* C7 (amended): getBalance, sign, signMessage, signTypedData and
\* signTransaction raise a failure of their remote step under their own
\* operation-named message, followed by the cause's message when the cause
\* is an Error; so do the direct send of sendTransaction and nativeTransfer
\* for the step that ended them.  waitForTransactionReceipt and readContract
\* raise the chain client's error as it is, unwrapped.  sendTransaction does
\* not raise a failure of the gasless pipeline: it logs a warning and its
\* outcome is the direct send's, so the call returns normally when the direct
\* send succeeds.  nativeTransfer raises the conversion error of a value that
\* is no integer unwrapped.
C7_WrappingPolicy ==
    \A c \in Calls :
        IsDone(c) =>
            LET op == calls[c].op
                last == LastRequest(c)
                msg == The(Result(c).error.message)
            IN  /\ (op \in RpcOps \cup {"getBalance"} /\ Req(c) # <<>> /\ Failed(last))
                     => /\ ThrewWith(c, OpLabel(op))
                        /\ Cause(last) # None => EndsWith(msg, ": " \o The(Cause(last)))
                /\ (op \in {"waitForTransactionReceipt", "readContract"} /\ Failed(last))
                     => Result(c) = Thrown(The(last.answer).error)
                /\ op = "sendTransaction"
                     => /\ Result(c).ok <=> (Req(c) # <<>> /\ Succeeded(last))
                        /\ ~Result(c).ok => ThrewWith(c, OpLabel(op))
                        /\ (~Result(c).ok /\ DirectSends(c) # {})
                             => EndsWith(msg, ": " \o The(Cause(last)))
                        /\ Len(calls[c].warnings) =
                              Cardinality({i \in DOMAIN Req(c) :
                                              IsSponsorship(Req(c)[i]) /\ Failed(Req(c)[i])
                                              /\ (i = 1 => ~SpecRecoverable(SponsoredError(c)))})
                              + (IF Escaped(c) /\ SponsorKey(P) = "" THEN 1 ELSE 0)
                /\ (op = "nativeTransfer" /\ ~Result(c).ok)
                     => IF BigIntThrows(calls[c].arg)
                        THEN Req(c) = <<>> /\ ~StartsWith(msg, OpLabel(op))
                        ELSE /\ ThrewWith(c, OpLabel(op))
                             /\ (Req(c) # <<>> /\ Failed(last) /\ ~IsSponsorship(last)
                                   /\ Cause(last) # None)
                                  => EndsWith(msg, ": " \o The(Cause(last)))

\* C7 witness: a sign call whose request was answered with HTTP 500 raised
\* the operation-named error with the whole causal chain.
C7_Witness ==
    \E c \in Calls :
        /\ calls[c].op = "sign" /\ IsDone(c) /\ Req(c) # <<>> /\ Failed(Req(c)[1])
        /\ Result(c) = Thrown(NewError(
               "Hash signing failed: Privy request failed: HTTP error! status: 500"))

(***************************************************************************)
(* The wallet API client cache                                             *)
(***************************************************************************)
\* the direct createWalletApiClient calls that returned a handle
ClientReturns == {i \in DOMAIN clientCalls : clientCalls[i].result.ok}

\* the credential pair call i resolved its arguments to
CredentialPair(i) == <<clientCalls[i].resolvedKey, clientCalls[i].resolvedKeyId>>

Rebuilt == runs["rebuilt"]

RunResult(r) == The(runs[r].result)

\* the first embedded wallet of the answer getUser gave run r
FirstEmbedded(r) == FilterEmbedded(The(runs[r].answer).linkedAccounts)[1]

Missing(config) ==
    \E f \in {"walletId", "appId", "appSecret", "authorizationPrivateKey"} :
        config[f] \in {None, Some("")}

\* the chain the configuration names is known
ChainKnown(config) ==
    IF config.chainId \in {None, Some("")}
    THEN IF config.networkId \in {None, Some("")}
         THEN getChain(NETWORK_ID_TO_CHAIN_ID("base-sepolia"))
         ELSE getChain(NETWORK_ID_TO_CHAIN_ID(The(config.networkId)))
    ELSE getChain(config.chainId)

\* C10: configureWithWallet validates wallet id, application id and secret
\* and authorization key before any network call: with one of them missing
\* it fails having made no lookup.  It makes at most one lookup.  A provider
\* reaches the caller only after validation passed and exactly one lookup
\* succeeded with an embedded wallet on a known chain; a lookup error, an
\* answer without embedded wallet and an unknown chain each yield an error
\* and no provider.
C10_TwoPhaseConstruction ==
    \A r \in RunIds :
        LET run == runs[r]
            resp == The(run.answer)
            found == resp.ok /\ FilterEmbedded(resp.linkedAccounts) # <<>>
        IN  /\ run.lookups = IF run.pc \in {"awaitUser", "done"} /\ ~Missing(run.config)
                             THEN 1 ELSE 0
            /\ (run.pc # "idle" /\ Missing(run.config))
                 => /\ run.pc = "done" /\ run.answer = None
                    /\ ~RunResult(r).ok
                    /\ StartsWith(The(RunResult(r).error.message),
                                  "Failed to configure Privy embedded wallet provider: ")
                    /\ EndsWith(The(RunResult(r).error.message),
                                " required for PrivyEvmDelegatedEmbeddedWalletProvider")
            /\ (run.pc = "done" /\ ~Missing(run.config))
                 => /\ RunResult(r).ok <=> (found /\ ChainKnown(run.config))
                    /\ ~RunResult(r).ok => RunResult(r).error.kind = "Error"
            /\ r = "orig"
                 => provider = IF run.pc = "done" /\ RunResult(r).ok
                               THEN Some(RunResult(r).provider) ELSE None

\* C10 witness: a configuration complete but for the authorization key was
\* rejected without a lookup and without a provider.
C10_Witness ==
    LET run == runs["orig"]
    IN  /\ run.pc = "done" /\ run.lookups = 0 /\ provider = None
        /\ run.config.authorizationPrivateKey = None
        /\ \A f \in {"walletId", "appId", "appSecret"} : ~Falsy(run.config[f])
        /\ RunResult("orig") = Thrown(NewError(
               "Failed to configure Privy embedded wallet provider: authorizationPrivateKey is required for PrivyEvmDelegatedEmbeddedWalletProvider"))

(***************************************************************************)
(* Numeric normalization of the sponsorship payload.  A bigint and the     *)
(* integer value of a number are decimal digit strings with a sign, so     *)
(* that values beyond 2^31 are computed digit by digit; toString(16) is    *)
(* the repeated division by 16 of the decimal string.                      *)
(***************************************************************************)
\* a JavaScript value handed in as value, gas or gasLimit: type is "undefined",
\* "null", "bigint", "number" or "string"; text is the string, or the decimal
\* literal of the bigint or of the number (a fraction for a non-integer)
JsValue(type, text) == [type |-> type, text |-> text]

Undefined == JsValue("undefined", "")

\* the decimal digit of n in 0..9
DigitChar(n) == CharAt("0123456789", n + 1)

\* the hexadecimal digit of n in 0..15, as toString(16) writes it
HexChar(n) == CharAt("0123456789abcdef", n + 1)

IsDigits(s) == s # "" /\ \A i \in 1..Len(s) : CharAt(s, i) \in Digits

\* the digit string without its leading zeros ("0" for zero)
RECURSIVE StripZeros(_)
StripZeros(s) ==
    IF Len(s) > 1 /\ CharAt(s, 1) = "0" THEN StripZeros(DropPrefix(s, "0")) ELSE s

\* the long division of the decimal string s by 16: quotient and remainder
RECURSIVE DivideBy16(_, _, _)
DivideBy16(s, r, q) ==
    IF s = "" THEN [quotient |-> StripZeros(q), remainder |-> r]
    ELSE LET n == 10 * r + DigitValue(CharAt(s, 1))
         IN  DivideBy16(DropPrefix(s, "0"), n % 16, q \o DigitChar(n \div 16))

\* magnitude.toString(16) for the magnitude given as a decimal string
RECURSIVE ToString16(_)
ToString16(dec) ==
    LET d == DivideBy16(StripZeros(dec), 0, "0")
    IN  IF d.quotient = "0" THEN HexChar(d.remainder)
        ELSE ToString16(d.quotient) \o HexChar(d.remainder)

\* a bigint: its sign and the decimal string of its magnitude
BigIntValue(negative, magnitude) ==
    [negative |-> negative /\ StripZeros(magnitude) # "0", magnitude |-> StripZeros(magnitude)]

\* value.toString(16) of a bigint
BigIntToString16(b) == (IF b.negative THEN "-" ELSE "") \o ToString16(b.magnitude)

\* a signed integer literal: an optional "-" and digits
SignedDigits(text) ==
    IF StartsWith(text, "-") THEN IsDigits(DropPrefix(text, "-")) ELSE IsDigits(text)

BigIntOfLiteral(text) ==
    IF StartsWith(text, "-") THEN BigIntValue(TRUE, DropPrefix(text, "-"))
    ELSE BigIntValue(FALSE, text)

\* BigInt(value) for a number: a RangeError unless the number is an integer
BigIntOfNumber(text) ==
    IF SignedDigits(text) THEN [ok |-> TRUE, value |-> BigIntOfLiteral(text)]
    ELSE [ok |-> FALSE, error |-> "RangeError"]

\* BigInt(value) for a string: white space is trimmed, the empty string is 0n,
\* a sign and decimal digits are read, anything else is a SyntaxError (the
\* 0b, 0o and 0X literals BigInt also reads are not among the inputs)
BigIntOfString(text) ==
    LET t == Trim(text)
        unsigned == IF StartsWith(t, "+") THEN DropPrefix(t, "+") ELSE t
    IN  IF t = "" THEN [ok |-> TRUE, value |-> BigIntValue(FALSE, "0")]
        ELSE IF SignedDigits(unsigned) /\ (StartsWith(t, "+") => IsDigits(unsigned))
        THEN [ok |-> TRUE, value |-> BigIntOfLiteral(unsigned)]
        ELSE [ok |-> FALSE, error |-> "SyntaxError"]

\* "0x" + BigInt(...).toString(16), or the error BigInt threw
HexOf(big) ==
    IF big.ok THEN [ok |-> TRUE, value |-> Some("0x" \o BigIntToString16(big.value))]
    ELSE big

\* normalizeHex(value) printing the number and the decimal string in base 10
normalizeHex_Base10(value) ==
    CASE value.type \in {"undefined", "null"} -> [ok |-> TRUE, value |-> None]
      [] value.type = "bigint" ->
            HexOf([ok |-> TRUE, value |-> BigIntOfLiteral(value.text)])
      [] value.type = "number" ->
            IF BigIntOfNumber(value.text).ok
            THEN [ok |-> TRUE, value |-> Some("0x" \o value.text)]
            ELSE BigIntOfNumber(value.text)
      [] value.type = "string" ->
            IF StartsWith(value.text, "0x") THEN [ok |-> TRUE, value |-> Some(value.text)]
            ELSE IF BigIntOfString(value.text).ok
            THEN [ok |-> TRUE, value |-> Some("0x" \o Trim(value.text))]
            ELSE BigIntOfString(value.text)

\* normalizeHex(value): what it returns, or the error it throws
normalizeHex(value) ==
    CASE value.type \in {"undefined", "null"} -> [ok |-> TRUE, value |-> None]
      [] value.type = "bigint" ->
            HexOf([ok |-> TRUE, value |-> BigIntOfLiteral(value.text)])
      [] value.type = "number" -> HexOf(BigIntOfNumber(value.text))
      [] value.type = "string" ->
            IF StartsWith(value.text, "0x") THEN [ok |-> TRUE, value |-> Some(value.text)]
            ELSE HexOf(BigIntOfString(value.text))

\* a ?? b on JavaScript values
Nullish(value) == value.type \in {"undefined", "null"}

\* mapTransactionForPrivy(transaction): the payload, or the error thrown
mapTransactionForPrivy(transaction) ==
    LET value == normalizeHex(transaction.value)
        gasLimit == normalizeHex(IF Nullish(transaction.gas) THEN transaction.gasLimit
                                 ELSE transaction.gas)
    IN  IF ~value.ok THEN Thrown(value.error)
        ELSE IF ~gasLimit.ok THEN Thrown(gasLimit.error)
        ELSE Returned([to |-> transaction.to,
                       data |-> Coalesce(transaction.data, Some("0x")),
                       value |-> value.value,
                       gasLimit |-> gasLimit.value])

\* the values handed in as value: absent, bigint, number, decimal and
\* hexadecimal strings, and strings and numbers that are no integers
ValueInputs ==
    { Undefined, JsValue("null", ""),
      JsValue("bigint", "1000000000000000000"), JsValue("bigint", "1000000000"),
      JsValue("bigint", "0"),
      JsValue("number", "1000000000"), JsValue("number", "1.5"),
      JsValue("string", "1000000000"), JsValue("string", "0x3b9aca00"),
      JsValue("string", "0x3B9ACA00"), JsValue("string", " 255 "),
      JsValue("string", ""), JsValue("string", "1e9"), JsValue("string", "-5") }

TransactionRequest(data, value, gas, gasLimit) ==
    [to |-> "0xTo", data |-> data, value |-> value, gas |-> gas, gasLimit |-> gasLimit]

\* the transactions mapped: every value input, and the gas and gasLimit
\* combinations of `gas ?? gasLimit`
Transactions ==
    {TransactionRequest(None, v, Undefined, Undefined) : v \in ValueInputs}
        \cup { TransactionRequest(Some("0xabcdef"), Undefined,
                                  JsValue("bigint", "21000"), Undefined),
               TransactionRequest(None, Undefined, Undefined, JsValue("number", "50000")),
               TransactionRequest(None, Undefined, JsValue("null", ""),
                                  JsValue("string", "21000")),
               TransactionRequest(None, Undefined, JsValue("bigint", "21000"),
                                  JsValue("string", "max")),
               TransactionRequest(None, Undefined, Undefined, JsValue("string", "max")) }

MaxMapped == 2

\* mapTransactionForPrivy(transaction) is applied
MapTransactionForPrivy(transaction) ==
    /\ Len(mapped) < MaxMapped
    /\ mapped' = Append(mapped, [transaction |-> transaction,
                                 result |-> mapTransactionForPrivy(transaction)])
    /\ UNCHANGED <<signatures, env, runs, provider, walletApiClients, constructed,
                   clientCalls, calls>>

\* SpecHex: sequences of mapTransactionForPrivy applications on one provider
InitHex ==
    /\ Init
    /\ env = NoEnv
    /\ provider = Some(Constructor(BaseConfig, "0xA", Some("instance-1"), NoEnv).provider)

NextHex == \E transaction \in Transactions : MapTransactionForPrivy(transaction)

SpecHex == InitHex /\ [][NextHex]_vars

(***************************************************************************)
(* Numeric normalization: properties                                       *)
(***************************************************************************)
HexDigitSet == {HexChar(n) : n \in 0..15}

\* "0x" followed by one or more hexadecimal digits, of either case
IsHexString(s) ==
    /\ StartsWith(s, "0x") /\ Len(s) > 2
    /\ \A i \in 3..Len(s) : CharAt(s, i) \in HexDigitSet \cup {"A", "B", "C", "D", "E", "F"}

\* "0x" followed by lower-case hexadecimal digits without leading zeros
IsCanonicalHex(s) ==
    /\ StartsWith(s, "0x") /\ Len(s) > 2
    /\ \A i \in 3..Len(s) : CharAt(s, i) \in HexDigitSet
    /\ Len(s) > 3 => CharAt(s, 3) # "0"

HexValue(ch) == CHOOSE n \in 0..15 : HexChar(n) = ch

\* 16 * dec + carry on decimal strings, from the last digit on
RECURSIVE Times16Plus(_, _, _)
Times16Plus(dec, carry, acc) ==
    IF dec = "" THEN StripZeros(DigitChar(carry \div 10) \o DigitChar(carry % 10) \o acc)
    ELSE LET n == 16 * DigitValue(CharAt(dec, Len(dec))) + carry
         IN  Times16Plus(SubSeq(dec, 1, Len(dec) - 1), n \div 10, DigitChar(n % 10) \o acc)

\* the decimal string of the number the lower-case hexadecimal digits denote
RECURSIVE HexToDecimal(_, _)
HexToDecimal(hex, acc) ==
    IF hex = "" THEN acc
    ELSE HexToDecimal(DropPrefix(hex, "0"), Times16Plus(acc, HexValue(CharAt(hex, 1)), ""))

\* the non-negative integer a value denotes, as a decimal string, when it is
\* a bigint, an integral number, a string of decimal digits or a canonical
\* hexadecimal string
Denoted(value) ==
    IF value.type \in {"bigint", "number", "string"} /\ IsDigits(value.text)
    THEN Some(StripZeros(value.text))
    ELSE IF value.type = "string" /\ IsCanonicalHex(value.text)
    THEN Some(HexToDecimal(DropPrefix(value.text, "0x"), "0"))
    ELSE None

\* the value that becomes the payload's gasLimit
GasInput(transaction) ==
    IF Nullish(transaction.gas) THEN transaction.gasLimit ELSE transaction.gas

\* the (input, output) pairs of the applications that returned a payload
Normalized ==
    UNION { { <<mapped[i].transaction.value, mapped[i].result.value.value>>,
              <<GasInput(mapped[i].transaction), mapped[i].result.value.gasLimit>> } :
            i \in {j \in DOMAIN mapped : mapped[j].result.ok} }

NamedInputs ==
    { JsValue("bigint", "1000000000000000000"), JsValue("number", "1000000000"),
      JsValue("string", "0x3b9aca00") }

\* C11 as claimed: a value or gasLimit given as bigint, number or string is
\* normalized to a hex string whatever its representation, and the inputs
\* bigint 1000000000000000000, number 1e9 and "0x3b9aca00" normalize to the
\* same hex representation.
C11_OneHexForEveryRepresentation ==
    /\ \A i \in DOMAIN mapped :
           LET value == mapped[i].transaction.value
               gas == GasInput(mapped[i].transaction)
               numeric(v) == Denoted(v) # None \/ (v.type = "string" /\ IsHexString(v.text))
           IN  /\ (numeric(value) /\ (Nullish(gas) \/ numeric(gas)))
                    => /\ mapped[i].result.ok
                       /\ mapped[i].result.value.value # None
                       /\ IsHexString(The(mapped[i].result.value.value))
               /\ (numeric(gas) /\ (Nullish(value) \/ numeric(value)))
                    => /\ mapped[i].result.ok
                       /\ mapped[i].result.value.gasLimit # None
                       /\ IsHexString(The(mapped[i].result.value.gasLimit))
    /\ \A i, j \in DOMAIN mapped :
           (mapped[i].transaction.value \in NamedInputs
              /\ mapped[j].transaction.value \in NamedInputs)
               => mapped[i].result = mapped[j].result

\* C11 (amended): a value or gasLimit that is a non-negative integer given as
\* bigint, integral number or string of decimal digits is normalized to "0x"
\* followed by its lower-case hexadecimal digits without leading zeros, the
\* same string for the same integer in each of these representations; a
\* string that starts with "0x" is passed on unchanged; an absent value is
\* left absent.  Number 1e9, bigint 1000000000, "1000000000" and "0x3b9aca00"
\* all give "0x3b9aca00"; bigint 1000000000000000000 gives
\* "0xde0b6b3a7640000".
C11_IntegersToCanonicalHex ==
    /\ \A pair \in Normalized :
           LET input == pair[1]
               output == pair[2]
           IN  /\ Nullish(input) => output = None
               /\ (input.type = "string" /\ StartsWith(input.text, "0x"))
                    => output = Some(input.text)
               /\ (Denoted(input) # None /\ ~StartsWith(input.text, "0x"))
                    => /\ output # None
                       /\ IsCanonicalHex(The(output))
                       /\ HexToDecimal(DropPrefix(The(output), "0x"), "0") = The(Denoted(input))
               /\ input = JsValue("bigint", "1000000000000000000")
                    => output = Some("0xde0b6b3a7640000")
               /\ Denoted(input) = Some("1000000000") => output = Some("0x3b9aca00")
    /\ \A a, b \in Normalized :
           (Denoted(a[1]) # None /\ Denoted(a[1]) = Denoted(b[1])) => a[2] = b[2]
    /\ \A i \in DOMAIN mapped :
           LET value == mapped[i].transaction.value
               gas == GasInput(mapped[i].transaction)
           IN  ((Nullish(value) \/ Denoted(value) # None)
                  /\ (Nullish(gas) \/ Denoted(gas) # None))
                   => mapped[i].result.ok

\* C11 witness: bigint 1000000000000000000 and number 1e9 were both mapped,
\* to "0xde0b6b3a7640000" and to "0x3b9aca00".
C11_Witness ==
    /\ Len(mapped) = 2
    /\ mapped[1].transaction.value = JsValue("bigint", "1000000000000000000")
    /\ mapped[1].result.value.value = Some("0xde0b6b3a7640000")
    /\ mapped[2].transaction.value = JsValue("number", "1000000000")
    /\ mapped[2].result.value.value = Some("0x3b9aca00")

(***************************************************************************)
(* Canonical Request Signer: generatePrivySignature.  A JSON value is a    *)
(* string, a number or an object; an object keeps its members in insertion *)
(* order, as a JavaScript object does.                                     *)
(***************************************************************************)
JsonString(text) == [type |-> "string", text |-> text, members |-> <<>>]

JsonNumber(text) == [type |-> "number", text |-> text, members |-> <<>>]

JsonObject(members) == [type |-> "object", text |-> "", members |-> members]

Member(key, value) == [key |-> key, value |-> value]

\* the member names of the model, in the order of their UTF-16 code units
KeyOrder ==
    << "address", "body", "chain_type", "encoding", "headers", "message", "method",
       "params", "privy-app-id", "url", "version" >>

KeyRank(key) == CHOOSE i \in DOMAIN KeyOrder : KeyOrder[i] = key

\* the members sorted by name, as canonicalize (RFC 8785) orders them
RECURSIVE SortMembers(_)
SortMembers(members) ==
    IF members = <<>> THEN <<>>
    ELSE LET first == CHOOSE i \in DOMAIN members :
                          \A j \in DOMAIN members :
                              KeyRank(members[i].key) <= KeyRank(members[j].key)
         IN  <<members[first]>>
                 \o SortMembers([k \in 1..(Len(members) - 1) |->
                                    IF k < first THEN members[k] ELSE members[k + 1]])

Quoted(text) == "\"" \o text \o "\""

\* the serialization of a value, its objects' members sorted or as they come
RECURSIVE Serialize(_, _)
RECURSIVE SerializeMembers(_, _)
Serialize(value, sorted) ==
    CASE value.type = "string" -> Quoted(value.text)
      [] value.type = "number" -> value.text
      [] value.type = "object" ->
            "{" \o SerializeMembers(IF sorted THEN SortMembers(value.members)
                                    ELSE value.members, sorted) \o "}"

SerializeMembers(members, sorted) ==
    IF members = <<>> THEN ""
    ELSE Quoted(members[1].key) \o ":" \o Serialize(members[1].value, sorted)
            \o (IF Len(members) = 1 THEN "" ELSE ",")
            \o SerializeMembers(Tail(members), sorted)

\* canonicalize(payload)
canonicalize(value) == Serialize(value, TRUE)

\* JSON.stringify(payload)
Stringify(value) == Serialize(value, FALSE)

\* the signature scheme of a private key: crypto.sign takes it from the key
KeyAlgorithm(key) == IF StartsWith(key, "MIIE") THEN "rsa" ELSE "ec"

\* what the signing draws at random: ECDSA draws a nonce for every signature,
\* RSA PKCS#1 v1.5 draws nothing
Nonces(key) == IF KeyAlgorithm(key) = "ec" THEN {"k1", "k2"} ELSE {"none"}

\* crypto.sign("sha256", message, privateKey): the signature bytes are
\* determined by the key, the message and the nonce drawn
CryptoSign(key, message, nonce) == [signer |-> key, message |-> message, nonce |-> nonce]

\* the payload object of lines 707-715
SignedPayload(p, url, body) ==
    JsonObject(<< Member("version", JsonNumber("1")),
                  Member("method", JsonString("POST")),
                  Member("url", JsonString(url)),
                  Member("body", body),
                  Member("headers",
                         JsonObject(<<Member("privy-app-id", JsonString(p.appId))>>)) >>)

\* generatePrivySignature signing JSON.stringify(payload)
generatePrivySignature_Stringify(p, url, body, nonce) ==
    IF SignatureFault(p) # None THEN Thrown(The(SignatureFault(p)))
    ELSE Returned(CryptoSign(The(normalizePrivyAuthorizationKey(Some(p.authKey))),
                             Stringify(SignedPayload(p, url, body)), nonce))

\* generatePrivySignature(url, body) when the signing draws `nonce`
generatePrivySignature(p, url, body, nonce) ==
    IF SignatureFault(p) # None THEN Thrown(The(SignatureFault(p)))
    ELSE Returned(CryptoSign(The(normalizePrivyAuthorizationKey(Some(p.authKey))),
                             canonicalize(SignedPayload(p, url, body)), nonce))

PrivyRpcUrl == "https://api.privy.io/v1/wallets/rpc"

\* the body of sign and signMessage, its members in the order given
PersonalSignBody(order, paramsOrder, message) ==
    LET params == << Member("message", JsonString(message)),
                     Member("encoding", JsonString("utf-8")) >>
        members == << Member("address", JsonString("0xA")),
                      Member("chain_type", JsonString("ethereum")),
                      Member("method", JsonString("personal_sign")),
                      Member("params", JsonObject([i \in 1..2 |-> params[paramsOrder[i]]])) >>
    IN  JsonObject([i \in 1..4 |-> members[order[i]]])

\* bodies signed: the body of signMessage as the code builds it, the same
\* members in other orders, and the body of another message
SignedBodies ==
    { PersonalSignBody(<<1, 2, 3, 4>>, <<1, 2>>, "hello"),
      PersonalSignBody(<<4, 3, 2, 1>>, <<1, 2>>, "hello"),
      PersonalSignBody(<<1, 2, 3, 4>>, <<2, 1>>, "hello"),
      PersonalSignBody(<<1, 2, 3, 4>>, <<1, 2>>, "bye") }

MaxSigned == 2

\* generatePrivySignature(url, body) is applied
GeneratePrivySignature(url, body, nonce) ==
    /\ provider # None
    /\ Len(signatures) < MaxSigned
    /\ nonce \in Nonces(The(Coalesce(normalizePrivyAuthorizationKey(Some(The(provider).authKey)),
                                     Some(""))))
    /\ signatures' = Append(signatures,
                            [url |-> url, body |-> body,
                             result |-> generatePrivySignature(The(provider), url, body, nonce)])
    /\ UNCHANGED <<mapped, env, runs, provider, walletApiClients, constructed,
                   clientCalls, calls>>

\* SpecSign: sequences of generatePrivySignature applications on one provider,
\* whose key is an ECDSA key, an RSA key or no key at all
InitSign ==
    /\ env = NoEnv
    /\ runs = NoRuns
    /\ walletApiClients = EmptyMap
    /\ constructed = <<>>
    /\ clientCalls = <<>>
    /\ calls = NoCalls
    /\ mapped = <<>>
    /\ signatures = <<>>
    /\ \E k \in {"wallet-auth:MIGkey1", "MIIEkey3", "not-a-pem-key"} :
           provider = Some(Constructor([BaseConfig EXCEPT
                                           !.authorizationPrivateKey = Some(k)],
                                       "0xA", Some("instance-1"), NoEnv).provider)

NextSign ==
    \E url \in {PrivyRpcUrl}, body \in SignedBodies, nonce \in {"k1", "k2", "none"} :
        GeneratePrivySignature(url, body, nonce)

SpecSign == InitSign /\ [][NextSign]_vars

(***************************************************************************)
(* Canonical Request Signer: properties                                    *)
(***************************************************************************)
KeysOf(object) == {object.members[i].key : i \in DOMAIN object.members}

ValueAt(object, key) ==
    object.members[CHOOSE i \in DOMAIN object.members : object.members[i].key = key].value

\* two JSON values are the same but for the order of their objects' members
RECURSIVE SameJson(_, _)
SameJson(a, b) ==
    /\ a.type = b.type
    /\ a.text = b.text
    /\ Len(a.members) = Len(b.members)
    /\ KeysOf(a) = KeysOf(b)
    /\ \A key \in KeysOf(a) : SameJson(ValueAt(a, key), ValueAt(b, key))

\* the applications that returned a signature
Signed == {i \in DOMAIN signatures : signatures[i].result.ok}

SameRequest(i, j) ==
    /\ signatures[i].url = signatures[j].url
    /\ SameJson(signatures[i].body, signatures[j].body)

SignerKey == The(normalizePrivyAuthorizationKey(Some(P.authKey)))

DefaultCredential(p) == normalizePrivyAuthorizationKey(Some(p.authKey))

\* a sponsorship credential other than the default signing credential is
\* configured
SeparateCredentials(p) ==
    /\ ~Falsy(p.gaslessAuthKey)
    /\ normalizePrivyAuthorizationKey(p.gaslessAuthKey) # DefaultCredential(p)

\* C13: when a sponsorship credential distinct from the default signing
\* credential is configured, every direct custodial request (sign,
\* signMessage, signTypedData, signTransaction, the direct eth_sendTransaction
\* and the outer fallback) is authenticated with the default credential only,
\* and the sponsorship credential is used for every sponsorship-API request
\* and for nothing else: it is the key of the client and the only key of the
\* authorization context.
C13_CredentialSeparation ==
    SeparateCredentials(P)
        => \A c \in Calls : \A i \in DOMAIN Req(c) :
               LET r == Req(c)[i]
               IN  /\ r.api = "rpc"
                        => /\ r.key = DefaultCredential(P)
                           /\ r.key # normalizePrivyAuthorizationKey(P.gaslessAuthKey)
                   /\ r.api = "walletApi"
                        => /\ calls[c].op \in {"sendTransaction", "nativeTransfer"}
                           /\ r.key = P.gaslessAuthKey
                           /\ r.key # Some(P.authKey)
                           /\ r.detail.client.authorizationPrivateKey = The(P.gaslessAuthKey)
                           /\ r.detail.client.keyIdHeader = P.gaslessAuthKeyId
                           /\ r.detail.authorization_context =
                                 Some([authorization_private_keys |->
                                          <<The(normalizePrivyAuthorizationKey(
                                                    P.gaslessAuthKey))>>])
                   /\ r.api \notin {"rpc", "walletApi"} => r.key = None

\* C13 witness: on a provider with a separate sponsorship credential a
\* sendTransaction call made a sponsored attempt and a retry under the
\* sponsorship key, then the fallback direct send under the default key.
C13_Witness ==
    /\ SeparateCredentials(P)
    /\ \E c \in Calls :
           /\ IsSend(c) /\ Len(Req(c)) = 3
           /\ Req(c)[1].key = Some("MIGkey2") /\ Req(c)[2].key = Some("MIGkey2")
           /\ IsDirectSend(Req(c)[3]) /\ Req(c)[3].key = Some("MIGkey1")

(***************************************************************************)
(* Terminal outcome of sendTransaction                                     *)
(***************************************************************************)
\* C14: every sendTransaction call that has terminated either returned a
\* transaction hash or surfaced an error; it never completed normally
\* without a transaction hash.
C14_HashOrError ==
    \A c \in Calls :
        (IsSend(c) /\ IsDone(c))
            => /\ calls[c].result # None
               /\ Result(c).ok => Result(c).value # None
               /\ \A i \in DOMAIN Req(c) : Req(c)[i].answer # None

(***************************************************************************)
(* Shape of the custodial RPC requests and of their results                *)
(***************************************************************************)
RpcBodyShape == {"address", "chain_type", "method", "params"}

RpcMethods ==
    {"personal_sign", "eth_signTypedData_v4", "eth_signTransaction", "eth_sendTransaction"}

\* the field of the response's data object that holds the result of a method
DataField(method, data) ==
    CASE method = "eth_signTransaction" -> data.signed_transaction
      [] method = "eth_sendTransaction" -> data.hash
      [] OTHER -> data.signature

\* C15: every request sent to the custodial wallet RPC by sign, signMessage,
\* signTypedData, signTransaction and the direct send has a body with the
\* keys address, chain_type, method and params and one of the four methods,
\* and the operation returns the result field of the response's data object
\* (data.signature, data.signed_transaction, data.hash).
C15_RpcShapeAndResult ==
    \A c \in Calls :
        /\ \A i \in DOMAIN Req(c) :
               Req(c)[i].api = "rpc"
                   => /\ RpcBodyShape \subseteq Req(c)[i].detail.keys
                      /\ Req(c)[i].method \in RpcMethods
        /\ (/\ IsDone(c)
            /\ calls[c].op \in RpcOps \cup {"sendTransaction"}
            /\ Req(c) # <<>>
            /\ LastRequest(c).api = "rpc"
            /\ Succeeded(LastRequest(c))
            /\ The(LastRequest(c).answer).json.data # None)
               => /\ Result(c).ok
                  /\ Result(c).value =
                        DataField(LastRequest(c).method,
                                  The(The(LastRequest(c).answer).json.data))

(***************************************************************************)
(* Fallback decision                                                       *)
(***************************************************************************)
\* the HTTP status an error carries: its status property or, when it has
\* none, its statusCode property
StatusOf(e) == IF e.status # None THEN e.status ELSE e.statusCode

\* the classification the claim words: status 401 or 403, or a message about
\* missing or invalid authorization signatures; never a non-object error
ClaimedRecoverable(e) ==
    /\ e.kind \in {"Error", "object"}
    /\ \/ StatusOf(e) \in {Some(401), Some(403)}
       \/ /\ e.message # None
          /\ Includes(The(e.message), "No valid authorization signatures")

\* C16: after a failed sponsored attempt the request is submitted again with
\* sponsor=false if and only if the error of the attempt carries HTTP status
\* 401 or 403 (in status, or in statusCode when it has no status) or its
\* message reports missing or invalid authorization signatures; every other
\* error (other statuses, other messages, non-object errors) is followed by
\* no sponsor=false submission, and a call without a failed sponsored attempt
\* makes none.
C16_FallbackIffRecoverable ==
    \A c \in Calls :
        /\ SponsoredFailure(c)
              => /\ ClaimedRecoverable(SponsoredError(c)) <=> Unsponsored(c) = {2}
                 /\ ~ClaimedRecoverable(SponsoredError(c)) <=> Unsponsored(c) = {}
        /\ ~SponsoredFailure(c) => Unsponsored(c) = {}

\* C16 witness: one call retried unsponsored after an error recoverable by its
\* message alone (status 400) while another, answered with status 500, went
\* on without a retry.
C16_Witness ==
    \E c, d \in Calls :
        /\ SponsoredFailure(c)
        /\ SponsoredError(c).status = Some(400)
        /\ Unsponsored(c) = {2}
        /\ SponsoredFailure(d)
        /\ SponsoredError(d).status = Some(500)
        /\ Unsponsored(d) = {}
        /\ Len(Req(d)) = 2

(***************************************************************************)
(* The client cache under concurrent sendTransaction calls                 *)
(***************************************************************************)
\* the cache key the provider's sponsorship lookups resolve to
ProviderCacheKey ==
    CacheKey(SponsorKey(P), Coalesce(P.gaslessAuthKeyId, P.authKeyId))

\* every entry of the cache stays, with the handle it has
CacheKept ==
    \A k \in DOMAIN walletApiClients :
        /\ k \in DOMAIN walletApiClients'
        /\ walletApiClients'[k] = walletApiClients[k]

\* one client constructed per key, and every lookup got the cached handle
OneHandlePerKey ==
    /\ Len(constructed) = Cardinality(DOMAIN walletApiClients)
    /\ Len(constructed) <= 1
    /\ \A c \in Calls : \A i \in DOMAIN Req(c) :
           IsSponsorship(Req(c)[i])
               => /\ MapHas(walletApiClients, ProviderCacheKey)
                  /\ Req(c)[i].detail.client = walletApiClients[ProviderCacheKey]

\* C17: under any interleaving of concurrent sendTransaction calls on one
\* provider the client cache only grows: an entry once present is never
\* removed or replaced by another handle, the lookups of all calls for the
\* provider's credential key receive the same handle, and at most one client
\* is constructed for the key.
C17_CacheAdditiveOnly == [][CacheKept]_vars /\ []OneHandlePerKey

\* C17 witness: two sendTransaction calls are in flight at once with their
\* sponsored submissions, both on the one handle that was constructed.
C17_Witness ==
    \E c, d \in Calls :
        /\ c # d
        /\ calls[c].pc \in {"awaitSponsored", "awaitRetry"}
        /\ calls[d].pc \in {"awaitSponsored", "awaitRetry"}
        /\ LastRequest(c).detail.client = LastRequest(d).detail.client
        /\ Len(constructed) = 1

(***************************************************************************)
(* Order of the submissions of one sendTransaction call                    *)
(***************************************************************************)
\* the submissions of call c that were answered with success
Successes(c) == {i \in DOMAIN Req(c) : Succeeded(Req(c)[i])}

\* the submissions of call c that are waiting for their answer
InFlight(c) == {i \in DOMAIN Req(c) : Req(c)[i].answer = None}

\* the place of a submission in the order sponsored, unsponsored, direct
Stage(r) ==
    IF IsDirectSend(r) THEN 3
    ELSE IF r.sponsor = Some(TRUE) THEN 1 ELSE 2

\* C18: within one sendTransaction call the remote submissions (sponsored,
\* unsponsored retry, direct send) are strictly sequential: at most one is in
\* flight, it is the latest, every submission before the latest was answered
\* with a failure, and they come in the order sponsored, unsponsored, direct;
\* a submission answered with success is the call's last, and the call ends
\* with it, so a call never obtains more than one successful submission.
C18_SequentialSubmissions ==
    \A c \in Calls :
        IsSend(c)
            => /\ \A i \in DOMAIN Req(c) :
                      /\ IsSponsorship(Req(c)[i]) \/ IsDirectSend(Req(c)[i])
                      /\ i < Len(Req(c)) => Failed(Req(c)[i])
                      /\ \A j \in DOMAIN Req(c) :
                             i < j => Stage(Req(c)[i]) < Stage(Req(c)[j])
               /\ InFlight(c) \subseteq {Len(Req(c))}
               /\ InFlight(c) # {} <=> calls[c].pc \in {"awaitSponsored", "awaitRetry", "awaitRpc"}
               /\ Successes(c) \subseteq {Len(Req(c))}
               /\ Cardinality(Successes(c)) <= 1
               /\ Successes(c) # {} => IsDone(c) /\ Result(c).ok

\* C18 witness: of two concurrent calls one ended on the success of its
\* sponsored submission, its only one, and the other went through two failed
\* submissions to a direct send that succeeded.
C18_Witness ==
    \E c, d \in Calls :
        /\ IsSend(c) /\ IsDone(c) /\ Len(Req(c)) = 1 /\ Successes(c) = {1}
        /\ IsSponsorship(Req(c)[1])
        /\ IsSend(d) /\ IsDone(d) /\ Len(Req(d)) = 3 /\ Successes(d) = {3}
        /\ Failed(Req(d)[1]) /\ Failed(Req(d)[2])

(***************************************************************************)
(* Consistency of the provider's network                                   *)
(***************************************************************************)
\* C19: the network of every constructed provider is self-consistent: the
\* chain id getNetwork() reports is the chain id its network id maps to,
\* whichever of networkId and chainId the configuration sets.
C19_NetworkSelfConsistent ==
    provider # None
        => getNetwork(P).chainId = NETWORK_ID_TO_CHAIN_ID(getNetwork(P).networkId)

====
